---- MODULE Spec2Model ----
(***************************************************************************)
(* AidSight "Aftershock" spillover simulation.                             *)
(*                                                                         *)
(* The model covers the request path                                       *)
(*   POST /simulate/aftershock  (backend/routers/simulate.py)              *)
(*     -> run_simulate_aftershock (backend/services/dataml_client.py)      *)
(*        -> dataml simulate_aftershock (dataml/src/simulate_aftershock.py)*)
(*        -> backend simulate_aftershock (backend/services/                *)
(*           aftershock_engine.py)                                         *)
(* and POST /simulate/shock, the pass-through to the dataml function.      *)
(*                                                                         *)
(* Fixed-point units (Python floats are modelled by scaled integers):      *)
(*   delta_funding_pct        hundredths        (-0.2   is  -20)           *)
(*   severity, coverage, prob ten-thousandths   (0.35   is  3500)          *)
(*   displaced persons        hundredths        (12.5   is  1250)          *)
(*   cost                     whole USD                                    *)
(*   edge weight              tenths            (1.0    is  10)            *)
(***************************************************************************)
EXTENDS Integers, Sequences, FiniteSets, TLC

VARIABLES
    importOk,      \* environment: "from dataml.src.simulate_aftershock import ..." succeeds
    dmFiles,       \* environment: sahel_panel.parquet and spillover_graph.parquet exist
    dmPanel,       \* environment: the country_iso3 values of the dataml panel
    bePanel,       \* environment: keys of the backend provider's country panel
    graph,         \* environment: the edge list (graph.json / spillover_graph.parquet)
    magnitude,     \* environment: size of the baseline displacement / need figures
    model,         \* environment: trained-model artifact [present, nodes, gain]
    hashOrder,     \* environment: iteration order of a Python set of country codes in this process
    dataml_available, \* dataml_client._DATAML_AVAILABLE: "None", "True" or "False"
    pc,            \* "idle", "pending" (a request is being served) or "done"
    req,           \* the request in flight
    resp,          \* the response of the last served request
    memo,          \* a remembered (request, response) pair, or NoMemo
    calls,         \* the calls of the worker threads: thread -> its position and locals
    built,         \* an affected list as _build_affected returns it (SpecRescale)
    scaled,        \* what lines 375-410 of dataml simulate_aftershock make of it
    disk,          \* environment: region_panel.parquet and graph.json (SpecProvider)
    provider       \* a FileAftershockDataProvider and the source of what its getters returned

envVars == <<importOk, dmFiles, dmPanel, bePanel, graph, magnitude, model, hashOrder,
             built, scaled, disk, provider>>
vars == <<importOk, dmFiles, dmPanel, bePanel, graph, magnitude, model, hashOrder,
          dataml_available, pc, req, resp, memo, calls, built, scaled,
          disk, provider>>

----------------------------------------------------------------------------
(* Bounds of the model. *)

\* largest horizon_steps a client sends (the dataml function rejects > 10)
MaxHorizonInput == 11

Countries == {"BFA", "NER", "TCD"}
\* "XXX" is the code the tests use for an unknown epicenter
Epicenters == {"BFA", "NER", "XXX"}
DeltaInputs == {-99, -20, 0, 30, 99}
HorizonInputs == {0, 1, 2, 10, MaxHorizonInput}
Magnitudes == {"zero", "typical", "huge"}

----------------------------------------------------------------------------
(* Arithmetic helpers. *)

Abs(x) == IF x < 0 THEN -x ELSE x
Sgn(x) == IF x < 0 THEN -1 ELSE 1
Max2(a, b) == IF a >= b THEN a ELSE b
Min2(a, b) == IF a <= b THEN a ELSE b

\* <<quotient, remainder>> of a*b divided by c for a, b >= 0 and c > 0, by
\* Horner's scheme over the decimal digits of b (no intermediate product
\* leaves 32 bits).
HornerStep(h, a, digit, c) ==
    <<h[1] * 10 + ((h[2] * 10 + a * digit) \div c), (h[2] * 10 + a * digit) % c>>

RECURSIVE MulDivQR(_, _, _)
MulDivQR(a, b, c) ==
    IF b = 0 THEN <<0, 0>>
    ELSE HornerStep(MulDivQR(a, b \div 10, c), a, b % 10, c)

\* round to nearest, ties to even, given <<quotient, remainder>> and the divisor
RoundHalfEven(qr, c) ==
    IF 2 * qr[2] > c THEN qr[1] + 1
    ELSE IF 2 * qr[2] < c THEN qr[1]
    ELSE IF qr[1] % 2 = 0 THEN qr[1] ELSE qr[1] + 1

\* round(a*b/c) as Python's round; a, b >= 0, c > 0
MulDivRound(a, b, c) == RoundHalfEven(MulDivQR(a, b, c), c)

\* signed version: x may be negative
SMulDivRound(x, b, c) == Sgn(x) * MulDivRound(Abs(x), b, c)

RECURSIVE SumOver(_, _)
\* sum of f[i] for i in the finite set S
SumOver(f, S) ==
    IF S = {} THEN 0
    ELSE LET i == CHOOSE j \in S : TRUE IN f[i] + SumOver(f, S \ {i})

RECURSIVE MaxOver(_, _)
\* max of f[i] for i in S, 0 when S is empty (max(..., default=0.0))
MaxOver(f, S) ==
    IF S = {} THEN 0
    ELSE LET i == CHOOSE j \in S : TRUE
             rest == S \ {i}
         IN  IF rest = {} THEN f[i] ELSE Max2(f[i], MaxOver(f, rest))

\* the elements of sequence s that satisfy Keep, in order
RECURSIVE FilterSeq(_, _)
FilterSeq(s, keep) ==
    IF s = <<>> THEN <<>>
    ELSE IF Head(s) \in keep THEN <<Head(s)>> \o FilterSeq(Tail(s), keep)
    ELSE FilterSeq(Tail(s), keep)

Range(s) == {s[i] : i \in DOMAIN s}

----------------------------------------------------------------------------
(* Program constants. *)

\* aftershock_engine.CONFIG, in hundredths (alpha) and tenths (decay); beta = 0.5
\* is folded into EpicenterDisplaced
ALPHA == 35
DECAY == 7
\* run_simulate_aftershock passes cost_per_person=250.0 to the backend engine
BACKEND_COST_PER_PERSON == 250
\* dataml simulate_aftershock
COST_PER_PERSON_USD == 100
MAX_TOTAL_EXTRA_DISPLACED == 200000
TARGET_TOTAL_EXTRA_DISPLACED == 100000
MIN_IMPACT_DISPLACED == 10000
\* route clamps
DELTA_LO == 0 - 30
DELTA_HI == 30
HORIZON_LO == 1
HORIZON_HI == 2
\* dataml accepts 1..10
DATAML_HORIZON_MAX == 10

\* an optional field that is not set (Python None / key not present)
Absent == 0 - 1

----------------------------------------------------------------------------
(* The baseline snapshot: rows of the panels and the edge list.            *)
(* The files themselves are not part of the sources; their values are      *)
(* environment inputs drawn in Init.                                       *)

\* row["severity"], ten-thousandths
SeverityOf(c) ==
    CASE c = "BFA" -> 7000 [] c = "NER" -> 10000 [] OTHER -> 0

\* row["coverage_proxy"] (backend) / row["coverage"] (dataml), ten-thousandths
CoverageOf(c) ==
    CASE c = "BFA" -> 5000 [] c = "NER" -> 9000 [] OTHER -> 0

\* row["funding_usd"] / 1e8, ten-thousandths
FundingProxyOf(c) ==
    CASE c = "BFA" -> 10000 [] c = "NER" -> 5000 [] OTHER -> 20000

\* row["displaced_out"], persons
DispOutOf(c, mag) ==
    CASE mag = "zero" -> 0 [] mag = "typical" -> 20000 [] OTHER -> 20000000

\* row["people_in_need"], persons
NeedOf(c, mag) ==
    CASE mag = "zero" -> 0 [] mag = "typical" -> 6000 [] OTHER -> 6000000

Edge(s, d, w) == [src |-> s, dst |-> d, weight |-> w]

\* the edge lists the environment may hold (weights in tenths, >= 0)
Graphs ==
    { <<>>,
      <<Edge("BFA", "NER", 10), Edge("BFA", "TCD", 10)>>,
      <<Edge("BFA", "NER", 10), Edge("NER", "TCD", 5)>>,
      <<Edge("BFA", "NER", 10), Edge("BFA", "NER", 5), Edge("NER", "BFA", 20)>> }

PanelChoices == { {}, {"BFA"}, {"BFA", "NER"}, {"BFA", "NER", "TCD"} }

\* the trained artifact: whether spillover_model.pt and model_config.json exist,
\* the node index of model_config.json, and the network's predicted need as a
\* percentage of the baseline need (the weights are data, not code)
Models ==
    {[present |-> FALSE, nodes |-> {}, gain |-> 100]} \cup
    { [present |-> TRUE, nodes |-> {"BFA", "NER", "TCD"}, gain |-> 150],
      [present |-> TRUE, nodes |-> {"NER", "TCD"}, gain |-> 50] }

\* sorted(...) of a set of codes
Alphabetical == <<"BFA", "NER", "TCD", "XXX">>

HashOrders == { <<"BFA", "NER", "TCD">>, <<"TCD", "NER", "BFA">> }

----------------------------------------------------------------------------
(* Backend engine: backend/services/aftershock_engine.py                   *)

\* _clamp(val, lo, hi) = max(lo, min(hi, val))
Clamp(val, lo, hi) == Max2(lo, Min2(hi, val))

\* _sigmoid(x) = 1/(1+exp(-x)); x and the result in ten-thousandths.
\* Piecewise-linear through the exact values at the integers 0..6.
SigmoidTable == <<5000, 7311, 8808, 9526, 9820, 9933, 9975, 9991>>

SigmoidPos(x) ==
    IF x \div 10000 >= 7 THEN 9999
    ELSE SigmoidTable[(x \div 10000) + 1]
         + ((SigmoidTable[(x \div 10000) + 2] - SigmoidTable[(x \div 10000) + 1])
            * (x % 10000)) \div 10000

Sigmoid(x) == IF x >= 0 THEN SigmoidPos(x) ELSE 10000 - SigmoidPos(-x)

\* delta_severity_epicenter = alpha * stress * (1 - coverage_proxy), stress = -delta
EpicenterSeverity(delta, coverage) ==
    Sgn(-delta) * MulDivRound(Abs(delta) * ALPHA, 10000 - coverage, 10000)

\* a variant whose stress follows the sign of delta instead of opposing it
EpicenterDisplacedSameSign(delta, displaced_out) ==
    Sgn(delta) * MulDivRound(Abs(delta), displaced_out, 20)

\* delta_displaced_epicenter = beta * stress * (displaced_out0 / 100000.0) * 10000,
\* in hundredths of a person: (-delta/100) * 0.5 * displaced_out / 10 * 100
EpicenterDisplaced(delta, displaced_out) ==
    Sgn(-delta) * MulDivRound(Abs(delta), displaced_out, 20)

\* prop = d * weight * decay
Propagated(d, weight) == SMulDivRound(d, weight * DECAY, 100)

\* the indices of the edges a round pushes along: src holds shock, and dst is
\* not filtered out by region_scope ({} stands for None or an empty list)
PushEdges(edges, shock, region_scope) ==
    { i \in DOMAIN edges :
        /\ edges[i].src \in DOMAIN shock
        /\ (region_scope # {} => edges[i].dst \in region_scope) }

\* next_shock[k].ds: the pushes into k of this round (zero when none)
PushedSeverity(edges, shock, push, k) ==
    SumOver([i \in push |-> Propagated(shock[edges[i].src].ds, edges[i].weight)],
            { i \in push : edges[i].dst = k })

\* next_shock[k].dd
PushedDisplaced(edges, shock, push, k) ==
    SumOver([i \in push |-> Propagated(shock[edges[i].src].dd, edges[i].weight)],
            { i \in push : edges[i].dst = k })

\* variant of MergeRound: a push replaces what the node held instead of
\* adding to it
MergeRoundOverwrite(edges, shock, push) ==
    [k \in DOMAIN shock \cup { edges[i].dst : i \in push } |->
        [ds |-> IF k \in { edges[i].dst : i \in push }
                THEN PushedSeverity(edges, shock, push, k) ELSE shock[k].ds,
         dd |-> IF k \in { edges[i].dst : i \in push }
                THEN PushedDisplaced(edges, shock, push, k) ELSE shock[k].dd]]

\* lines 94-98: merge next_shock into shock
MergeRound(edges, shock, push) ==
    [k \in DOMAIN shock \cup { edges[i].dst : i \in push } |->
        [ds |-> (IF k \in DOMAIN shock THEN shock[k].ds ELSE 0)
                  + PushedSeverity(edges, shock, push, k),
         dd |-> (IF k \in DOMAIN shock THEN shock[k].dd ELSE 0)
                  + PushedDisplaced(edges, shock, push, k)]]

\* one pass of "for step in range(horizon_steps - 1)"
PropagateRound(edges, shock, region_scope) ==
    MergeRound(edges, shock, PushEdges(edges, shock, region_scope))

RECURSIVE PropagateRounds(_, _, _, _)
PropagateRounds(edges, shock, region_scope, rounds) ==
    IF rounds <= 0 THEN shock
    ELSE PropagateRounds(edges, PropagateRound(edges, shock, region_scope),
                         region_scope, rounds - 1)

\* the shock map after the horizon loop
BackendShock(epicenter, delta, horizon_steps, edges, mag, region_scope) ==
    PropagateRounds(edges,
                    [k \in {epicenter} |->
                       [ds |-> EpicenterSeverity(delta, CoverageOf(epicenter)),
                        dd |-> EpicenterDisplaced(delta, DispOutOf(epicenter, mag))]],
                    region_scope, horizon_steps - 1)

\* edge_impacts (lines 83-88, returned as graph_edges_used when debug is set):
\* the (src, dst) of every push of the first "rounds" rounds; the entry is
\* appended before anything looks at the panel
RECURSIVE EdgeImpacts(_, _, _, _)
EdgeImpacts(edges, shock, region_scope, rounds) ==
    IF rounds <= 0 THEN {}
    ELSE { [src |-> edges[i].src, dst |-> edges[i].dst] :
             i \in PushEdges(edges, shock, region_scope) }
         \cup EdgeImpacts(edges, PropagateRound(edges, shock, region_scope),
                          region_scope, rounds - 1)

\* graph_edges_used of a debug call
GraphEdgesUsed(epicenter, delta, horizon_steps, edges, mag, region_scope) ==
    EdgeImpacts(edges, BackendShock(epicenter, delta, 1, edges, mag, region_scope),
                region_scope, horizon_steps - 1)

\* one entry of affected (lines 112-133)
BackendEntry(country, epicenter, s, cost_per_person) ==
    [country |-> country,
     delta_severity |-> s.ds,
     delta_displaced |-> s.dd,
     extra_cost_usd |-> SMulDivRound(s.dd, cost_per_person, 100),
     prob_underfunded_next |->
         Clamp(Sigmoid(3 * (SeverityOf(country) + s.ds) - 2 * FundingProxyOf(country)),
               0, 10000),
     explanation |-> IF country # epicenter THEN "Spillover from epicenter"
                     ELSE "Direct funding impact",
     projected_severity |-> Absent,
     projected_coverage |-> Absent]

\* "for country in all_affected" with its two filters, in set-iteration order
BackendAffectedOrder(shock, panel, region_scope) ==
    FilterSeq(hashOrder,
              { c \in DOMAIN shock :
                  c \in panel /\ (region_scope # {} => c \in region_scope) })

\* the affected list (lines 106-133)
BackendEntries(order, epicenter, shock, cost_per_person) ==
    [i \in DOMAIN order |-> BackendEntry(order[i], epicenter, shock[order[i]], cost_per_person)]

BackendAffected(epicenter, shock, panel, cost_per_person, region_scope) ==
    BackendEntries(BackendAffectedOrder(shock, panel, region_scope),
                   epicenter, shock, cost_per_person)

\* lines 135-140
BackendTotals(affected) ==
    [total_delta_displaced |->
         SumOver([i \in DOMAIN affected |-> affected[i].delta_displaced], DOMAIN affected),
     total_extra_cost_usd |->
         SumOver([i \in DOMAIN affected |-> affected[i].extra_cost_usd], DOMAIN affected),
     affected_countries |-> Len(affected),
     max_delta_severity |->
         MaxOver([i \in DOMAIN affected |-> Abs(affected[i].delta_severity)],
                 DOMAIN affected)]

\* lines 142-151
BackendResult(epicenter, delta, horizon_steps, affected) ==
    [ok |-> TRUE,
     epicenter |-> epicenter,
     delta_funding_pct |-> delta,
     horizon_steps |-> horizon_steps,
     affected |-> affected,
     totals |-> BackendTotals(affected),
     notes |-> <<>>]

\* backend simulate_aftershock: the ValueError of line 43, or the result dict
BackendSimulate(epicenter, delta, horizon_steps, panel, edges, mag, cost_per_person, region_scope) ==
    IF epicenter \notin panel
    THEN [ok |-> FALSE, exc |-> "ValueError", codes |-> panel]
    ELSE BackendResult(epicenter, delta, horizon_steps,
             BackendAffected(epicenter,
                 BackendShock(epicenter, delta, horizon_steps, edges, mag, region_scope),
                 panel, cost_per_person, region_scope))

----------------------------------------------------------------------------
(* DataML: dataml/src/simulate_aftershock.py                               *)

Sorted(S) == FilterSeq(Alphabetical, S)

\* _neighbors_of: undirected, sorted, without duplicates
NeighborsOf(edges, node) ==
    Sorted({ edges[i].dst : i \in { j \in DOMAIN edges : edges[j].src = node } }
           \cup
           { edges[i].src : i \in { j \in DOMAIN edges :
                                      edges[j].src # node /\ edges[j].dst = node } })

\* delta_pct: a value in [-1, 1] other than 0 is a fraction, anything else a percentage
DeltaPct(delta) ==
    IF Abs(delta) <= 100 /\ delta # 0 THEN delta ELSE Sgn(delta) * (Abs(delta) \div 100)

\* round(x, 2) of a value in ten-thousandths
Round2(x) == Sgn(x) * MulDivRound(Abs(x), 1, 100) * 100

\* _heuristic_spillover: need_cur[j], persons (float, rounded by the caller)
HeuristicNeed(j, node, nbrs, delta, horizon_steps, mag) ==
    IF j \in nbrs
    THEN \* need[j] * (1.0 + spillover_frac * 0.2), spillover_frac = 0.25 * h / 3
         MulDivRound(NeedOf(j, mag), 60 + horizon_steps, 60)
    ELSE IF j = node
    THEN \* need[idx] * (1.0 + shock_magnitude * 0.3)
         MulDivRound(NeedOf(j, mag),
                     10000 + 3 * Abs(DeltaPct(delta)) * (10 + horizon_steps), 10000)
    ELSE NeedOf(j, mag)

\* _heuristic_spillover: cov_cur[j], ten-thousandths
HeuristicCov(j, node, nbrs, delta, horizon_steps) ==
    IF j \in nbrs
    THEN Max2(0, CoverageOf(j) - MulDivRound(250, horizon_steps, 3))
    ELSE IF j = node
    THEN Max2(0, CoverageOf(j) + DeltaPct(delta) * 50)
    ELSE CoverageOf(j)

\* _run_model_forward: need_cur[j] = max(out * need_max, 0); the network is
\* represented by the gain of the artifact
ModelNeed(j, mag) == Max2(0, MulDivRound(NeedOf(j, mag), model.gain, 100))

\* _run_model_forward: cov_cur = clip(out[:, 0], 0, 1)
ModelCov(j) == Clamp(CoverageOf(j), 0, 10000)

\* one entry of _build_affected; delta_displaced in hundredths of a person
\* lines 294-297: delta_severity before rounding
NeedSeverity(diff, baseline_need) ==
    IF baseline_need > 0
    THEN Min2(10000, SMulDivRound(diff, 10000, baseline_need))
    ELSE 0

DmEntry(iso3, scenario_need, scenario_cov, mag) ==
    [country |-> iso3,
     delta_severity |-> Round2(NeedSeverity(scenario_need - NeedOf(iso3, mag), NeedOf(iso3, mag))),
     delta_displaced |-> Max2(0, scenario_need - NeedOf(iso3, mag)) * 100,
     extra_cost_usd |-> Max2(0, scenario_need - NeedOf(iso3, mag)) * COST_PER_PERSON_USD,
     prob_underfunded_next |-> Max2(0, Min2(10000, Round2(10000 - scenario_cov))),
     explanation |-> "",
     projected_severity |-> Absent,
     projected_coverage |-> Absent]

\* need_cur[j] of the strategy in use (lines 362-370)
ScenarioNeed(j, node, nbrs, delta, horizon_steps, mag) ==
    IF model.present THEN ModelNeed(j, mag)
    ELSE HeuristicNeed(j, node, nbrs, delta, horizon_steps, mag)

\* cov_cur[j] of the strategy in use
ScenarioCov(j, node, nbrs, delta, horizon_steps) ==
    IF model.present THEN ModelCov(j)
    ELSE HeuristicCov(j, node, nbrs, delta, horizon_steps)

\* the neighbours _build_affected keeps: in node_to_idx and in the panel
KeptNeighbors(neighbor_list) ==
    FilterSeq(neighbor_list, (IF model.present THEN model.nodes ELSE dmPanel) \cap dmPanel)

\* _build_affected over the kept neighbours
BuildEntries(kept, node, nbrs, delta, horizon_steps, mag) ==
    [i \in DOMAIN kept |->
        DmEntry(kept[i],
                ScenarioNeed(kept[i], node, nbrs, delta, horizon_steps, mag),
                ScenarioCov(kept[i], node, nbrs, delta, horizon_steps),
                mag)]

\* lines 372-373
BuildAffected(neighbor_list, node, delta, horizon_steps, mag) ==
    BuildEntries(KeptNeighbors(neighbor_list), node, Range(neighbor_list),
                 delta, horizon_steps, mag)

SumDisplaced(affected) ==
    SumOver([i \in DOMAIN affected |-> affected[i].delta_displaced], DOMAIN affected)

SumCost(affected) ==
    SumOver([i \in DOMAIN affected |-> affected[i].extra_cost_usd], DOMAIN affected)

\* variant of RescaleEntry: delta_severity is left as it was
RescaleEntryNoCap(a, d) ==
    [a EXCEPT !.delta_displaced = d * 100,
              !.extra_cost_usd = d * COST_PER_PERSON_USD]

\* lines 381-384: one entry scaled by TARGET / total (total in hundredths)
RescaleEntry(a, d) ==
    [a EXCEPT !.delta_displaced = d * 100,
              !.extra_cost_usd = d * COST_PER_PERSON_USD,
              !.delta_severity = Round2(Min2(5000, a.delta_severity))]

Rescale(affected, total) ==
    [i \in DOMAIN affected |->
        RescaleEntry(affected[i],
                     MulDivRound(affected[i].delta_displaced \div 100,
                                 TARGET_TOTAL_EXTRA_DISPLACED, total \div 100))]

\* lines 379-386: the plausibility rescale
Plausible(affected, total) ==
    IF total > MAX_TOTAL_EXTRA_DISPLACED * 100 /\ total > 0
    THEN Rescale(affected, total)
    ELSE affected

\* lines 392-395: the entry that carries the injected minimum impact
InjectEntry(a) ==
    [a EXCEPT !.delta_displaced = MIN_IMPACT_DISPLACED * 100,
              !.extra_cost_usd = MIN_IMPACT_DISPLACED * COST_PER_PERSON_USD,
              !.delta_severity = Round2(Min2(10000, 1500 + a.delta_severity)),
              !.prob_underfunded_next = Round2(Min2(10000, 3800 + a.prob_underfunded_next))]

\* lines 391-395
InjectMinimum(affected) ==
    IF affected = <<>> THEN affected
    ELSE [affected EXCEPT ![1] = InjectEntry(affected[1])]

\* line 388: the condition of the minimum-impact policy
MustInject(delta, neighbor_list, total) ==
    delta < 0 /\ neighbor_list # <<>> /\ total = 0

\* lines 397-410
DmResult(node_iso3, delta, affected, inject) ==
    [ok |-> TRUE,
     epicenter |-> node_iso3,
     delta_funding_pct |-> delta,
     affected |-> IF inject THEN InjectMinimum(affected) ELSE affected,
     total_extra_displaced |->
         IF inject THEN MIN_IMPACT_DISPLACED * 100 ELSE SumDisplaced(affected),
     total_extra_cost_usd |->
         IF inject THEN MIN_IMPACT_DISPLACED * COST_PER_PERSON_USD ELSE SumCost(affected),
     notes |-> <<"severity proxy: INFORM", "cost proxy: 100 USD per person">>]

\* lines 387-410, given the affected list after the plausibility rescale
DmFinish(node_iso3, delta, neighbor_list, affected) ==
    DmResult(node_iso3, delta, affected,
             MustInject(delta, neighbor_list, SumDisplaced(affected)))

\* lines 375-386, given the affected list of _build_affected
DmTotals(node_iso3, delta, neighbor_list, affected) ==
    DmFinish(node_iso3, delta, neighbor_list, Plausible(affected, SumDisplaced(affected)))

\* lines 357-373, given the neighbour list
DmRun(node_iso3, delta, horizon_steps, neighbor_list) ==
    DmTotals(node_iso3, delta, neighbor_list,
             BuildAffected(neighbor_list, node_iso3, delta, horizon_steps, magnitude))

DmFailure(exc, codes) == [ok |-> FALSE, exc |-> exc, codes |-> codes]

\* dataml simulate_aftershock(node_iso3, delta_funding_pct, horizon_years)
DatamlSimulate(node_iso3, delta, horizon_years) ==
    IF horizon_years < 1 \/ horizon_years > DATAML_HORIZON_MAX
    THEN DmFailure("ValueError: horizon_years", {})
    ELSE IF ~dmFiles
    THEN DmFailure("FileNotFoundError", {})
    ELSE IF node_iso3 \notin dmPanel
    THEN DmFailure("ValueError: not found in panel", dmPanel)
    ELSE IF model.present /\ node_iso3 \notin model.nodes
    THEN DmFailure("ValueError: not in model", model.nodes)
    ELSE DmRun(node_iso3, delta, horizon_years, NeighborsOf(graph, node_iso3))

----------------------------------------------------------------------------
(* Client: backend/services/dataml_client.py                               *)

\* _try_import_dataml: the value it returns
TryImportDataml(flag) == IF flag # "None" THEN flag = "True" ELSE importOk

\* a variant that records a failed probe whatever the import did
FlagAfterImportAlwaysFalse(flag) == IF flag # "None" THEN flag ELSE "False"

\* a variant that decides again on every call once DataML was found
FlagAfterImportForgets(flag) ==
    IF flag = "True" THEN "None" ELSE IF flag # "None" THEN flag
    ELSE IF importOk THEN "True" ELSE "False"

\* _try_import_dataml: _DATAML_AVAILABLE after the call
FlagAfterImport(flag) ==
    IF flag # "None" THEN flag ELSE IF importOk THEN "True" ELSE "False"

ZeroTotals ==
    [total_delta_displaced |-> 0, total_extra_cost_usd |-> 0,
     affected_countries |-> 0, max_delta_severity |-> 0]

\* lines 48-50
WithExplanation(a) ==
    IF a.explanation = "" THEN [a EXCEPT !.explanation = "Spillover from epicenter"] ELSE a

\* lines 51-56
DmClientTotals(raw, affected) ==
    [total_delta_displaced |-> raw.total_extra_displaced,
     total_extra_cost_usd |-> raw.total_extra_cost_usd,
     affected_countries |-> Len(affected),
     max_delta_severity |->
         MaxOver([i \in DOMAIN affected |-> affected[i].delta_severity], DOMAIN affected)]

\* lines 57-67
DmClientResult(raw, horizon_steps, affected) ==
    [ok |-> TRUE, exc |-> "", codes |-> {},
     epicenter |-> raw.epicenter,
     delta_funding_pct |-> raw.delta_funding_pct,
     horizon_steps |-> horizon_steps,
     affected |-> affected,
     totals |-> DmClientTotals(raw, affected),
     notes |-> raw.notes \o <<"DataML simulation">>,
     used_dataml |-> TRUE]

\* lines 46-67: map the DataML response to the AftershockResult schema
MapDataml(raw, horizon_steps) ==
    DmClientResult(raw, horizon_steps,
                   [i \in DOMAIN raw.affected |-> WithExplanation(raw.affected[i])])

\* lines 85-86, or the exception of the backend engine
WrapBackend(country, delta, horizon_steps, r) ==
    IF ~r.ok
    THEN [ok |-> FALSE, exc |-> r.exc, codes |-> r.codes,
          epicenter |-> country, delta_funding_pct |-> delta,
          horizon_steps |-> horizon_steps, affected |-> <<>>,
          totals |-> ZeroTotals, notes |-> <<>>, used_dataml |-> FALSE]
    ELSE [ok |-> TRUE, exc |-> "", codes |-> {},
          epicenter |-> r.epicenter,
          delta_funding_pct |-> r.delta_funding_pct,
          horizon_steps |-> r.horizon_steps,
          affected |-> r.affected,
          totals |-> r.totals,
          notes |-> r.notes \o <<"Backend fallback (DataML unavailable)">>,
          used_dataml |-> FALSE]

\* lines 71-86: the backend engine with the provider's data
BackendFallback(country, delta, horizon_steps) ==
    WrapBackend(country, delta, horizon_steps,
                BackendSimulate(country, delta, horizon_steps, bePanel, graph, magnitude,
                                BACKEND_COST_PER_PERSON, {}))

\* variant of DatamlOrFallback: the exception of the DataML call is passed on
DatamlOrRaise(country, delta, horizon_steps, raw) ==
    IF raw.ok THEN MapDataml(raw, horizon_steps)
    ELSE [ok |-> FALSE, exc |-> raw.exc, codes |-> raw.codes,
          epicenter |-> country, delta_funding_pct |-> delta,
          horizon_steps |-> horizon_steps, affected |-> <<>>,
          totals |-> ZeroTotals, notes |-> <<>>, used_dataml |-> FALSE]

\* lines 39-69: the DataML result, or the fallback when the call raised
DatamlOrFallback(country, delta, horizon_steps, raw) ==
    IF raw.ok THEN MapDataml(raw, horizon_steps)
    ELSE BackendFallback(country, delta, horizon_steps)

\* run_simulate_aftershock(country, delta_funding_pct, horizon_steps)
RunSimulateAftershock(country, delta, horizon_steps, flag) ==
    IF TryImportDataml(flag)
    THEN DatamlOrFallback(country, delta, horizon_steps,
                          DatamlSimulate(country, delta, horizon_steps))
    ELSE BackendFallback(country, delta, horizon_steps)

----------------------------------------------------------------------------
(* Routes: backend/routers/simulate.py                                     *)

\* panel.get(iso) or {} followed by row.get("severity", 0.5)
BaseSeverity(c) == IF c \in bePanel THEN SeverityOf(c) ELSE 5000

\* row.get("coverage_proxy", row.get("coverage", 0.5))
BaseCoverage(c) == IF c \in bePanel THEN CoverageOf(c) ELSE 5000

\* lines 112-114: delta after the clamp
ClampDelta(delta) ==
    IF delta < DELTA_LO \/ delta > DELTA_HI
    THEN Max2(DELTA_LO, Min2(DELTA_HI, delta))
    ELSE delta

\* lines 112-113: the notes the route starts with
ClampNotes(delta) ==
    IF delta < DELTA_LO \/ delta > DELTA_HI
    THEN <<"delta_funding_pct clamped">>
    ELSE <<>>

\* a variant that keeps the lower bound only
ClampHorizonLowerOnly(horizon_steps) == Max2(HORIZON_LO, horizon_steps)

\* line 115
ClampHorizon(horizon_steps) == Max2(HORIZON_LO, Min2(HORIZON_HI, horizon_steps))

\* line 139: proj_cov of the inserted epicenter entry
EpicenterProjCov(epicenter, delta) ==
    Max2(0, Min2(30000, BaseCoverage(epicenter) + delta * 100))

\* a variant that reports 1 - proj_cov as it is
EpicenterProbUnclamped(proj_cov) == 10000 - proj_cov

\* line 145: prob_underfunded_next of the inserted epicenter entry
EpicenterProb(proj_cov) == Max2(0, Min2(10000, 10000 - proj_cov))

\* lines 135-148: the epicenter entry the route inserts
EpicenterEntry(epicenter, delta) ==
    [country |-> epicenter,
     delta_severity |-> 0,
     delta_displaced |-> 0,
     extra_cost_usd |-> 0,
     prob_underfunded_next |-> EpicenterProb(EpicenterProjCov(epicenter, delta)),
     explanation |-> "",
     projected_severity |-> BaseSeverity(epicenter),
     projected_coverage |-> EpicenterProjCov(epicenter, delta)]

\* lines 158-161
ProjectedSeverity(base_sev, ds, delta) ==
    Max2(0, IF delta > 0 THEN Min2(base_sev + ds, base_sev) ELSE base_sev + ds)

\* lines 163-164
ProjectedCoverage(base_cov, is_epicenter, delta) ==
    Max2(0, Min2(30000, base_cov + (IF is_epicenter THEN delta * 100 ELSE 0)))

\* lines 149-164: projected_severity and projected_coverage of one entry
Project(a, epicenter, delta) ==
    [a EXCEPT
       !.projected_severity =
           IF a.projected_severity = Absent
           THEN ProjectedSeverity(BaseSeverity(a.country), a.delta_severity, delta)
           ELSE a.projected_severity,
       !.projected_coverage =
           IF a.projected_coverage = Absent
           THEN ProjectedCoverage(BaseCoverage(a.country), a.country = epicenter, delta)
           ELSE a.projected_coverage]

\* lines 134-148
WithEpicenter(affected_raw, epicenter, delta) ==
    IF epicenter # "" /\ epicenter \notin { affected_raw[i].country : i \in DOMAIN affected_raw }
    THEN <<EpicenterEntry(epicenter, delta)>> \o affected_raw
    ELSE affected_raw

\* lines 149-164
ProjectAll(affected, epicenter, delta) ==
    [i \in DOMAIN affected |-> Project(affected[i], epicenter, delta)]

\* lines 129-164
Normalize(affected_raw, epicenter, delta) ==
    ProjectAll(WithEpicenter(affected_raw, epicenter, delta), epicenter, delta)

ErrorResponse(status, exc, codes) ==
    [status |-> status, exc |-> exc, codes |-> codes,
     epicenter |-> "", delta_funding_pct |-> 0, horizon_steps |-> Absent,
     affected |-> <<>>, totals |-> ZeroTotals, notes |-> <<>>, used_dataml |-> FALSE]

\* lines 124-181, given what run_simulate_aftershock returned or raised
RouteResponse(payload, delta, r) ==
    IF ~r.ok
    THEN ErrorResponse(400, r.exc, r.codes)
    ELSE [status |-> 200, exc |-> "", codes |-> {},
          epicenter |-> r.epicenter,
          delta_funding_pct |-> r.delta_funding_pct,
          horizon_steps |-> r.horizon_steps,
          affected |-> Normalize(r.affected, payload.epicenter, delta),
          totals |-> r.totals,
          notes |-> ClampNotes(payload.delta_funding_pct) \o r.notes,
          used_dataml |-> r.used_dataml]

\* POST /simulate/aftershock
SimulateAftershockRoute(payload, flag) ==
    RouteResponse(payload, ClampDelta(payload.delta_funding_pct),
        RunSimulateAftershock(payload.epicenter,
                              ClampDelta(payload.delta_funding_pct),
                              ClampHorizon(payload.horizon_steps), flag))

\* lines 40-42, given what the dataml function returned or raised
ShockResponse(out) ==
    IF ~out.ok THEN ErrorResponse(503, out.exc, out.codes)
    ELSE [status |-> 200, exc |-> "", codes |-> {},
          epicenter |-> out.epicenter,
          delta_funding_pct |-> out.delta_funding_pct,
          horizon_steps |-> Absent,
          affected |-> out.affected,
          totals |->
            [total_delta_displaced |-> out.total_extra_displaced,
             total_extra_cost_usd |-> out.total_extra_cost_usd,
             affected_countries |-> Absent,
             max_delta_severity |-> Absent],
          notes |-> out.notes,
          used_dataml |-> TRUE]

\* what a direct caller of the backend engine gets: the result dict as it is,
\* or the ValueError (status 0: no HTTP response is involved)
EngineResponse(r) ==
    IF ~r.ok THEN ErrorResponse(0, r.exc, r.codes)
    ELSE [status |-> 200, exc |-> "", codes |-> {},
          epicenter |-> r.epicenter,
          delta_funding_pct |-> r.delta_funding_pct,
          horizon_steps |-> r.horizon_steps,
          affected |-> r.affected,
          totals |-> r.totals,
          notes |-> r.notes,
          used_dataml |-> FALSE]

\* simulate_aftershock(epicenter, delta_funding_pct, horizon_steps, provider,
\*                     cost_per_person, region_scope) of the backend engine
SimulateEngine(request) ==
    EngineResponse(BackendSimulate(request.epicenter, request.delta_funding_pct,
                                   request.horizon_steps, bePanel, graph, magnitude,
                                   request.cost_per_person, request.region_scope))

\* POST /simulate/shock: pass-through to dataml simulate_aftershock; exc is
\* what the dataml function itself raises when it is called directly
SimulateShock(request) ==
    IF ~importOk THEN ErrorResponse(503, "ImportError", {})
    ELSE ShockResponse(DatamlSimulate(request.epicenter, request.delta_funding_pct,
                                      request.horizon_steps))

\* GET /simulate/neighbors, lines 59-68 and 77: the countries of the
\* neighbors it returns, sorted; an edge counts in either orientation and the
\* panel is not consulted
GetEpicenterNeighbors(epicenter) ==
    Sorted({ graph[i].dst : i \in { j \in DOMAIN graph : graph[j].src = epicenter } }
           \cup
           { graph[i].src : i \in { j \in DOMAIN graph : graph[j].dst = epicenter } })

----------------------------------------------------------------------------
(* The state machine: one process serving requests one at a time.          *)

\* region_scope values a caller supplies ({} stands for None / omitted)
RegionScopes == { {}, {"BFA", "TCD"}, {"NER"} }

\* cost_per_person values a caller supplies (250 when omitted)
CostInputs == {100, BACKEND_COST_PER_PERSON}

\* requests that leave region_scope and cost_per_person at their defaults
PlainRequests ==
    [entry : {"aftershock", "shock"}, epicenter : Epicenters,
     delta_funding_pct : DeltaInputs, horizon_steps : HorizonInputs,
     region_scope : {{}}, cost_per_person : {BACKEND_COST_PER_PERSON}]

\* requests that set them: AftershockParams posted to the route, and the same
\* arguments given to the backend engine directly
ScopedRequests ==
    [entry : {"aftershock", "engine"}, epicenter : {"BFA", "NER"},
     delta_funding_pct : {-20}, horizon_steps : {2, 3},
     region_scope : RegionScopes, cost_per_person : CostInputs]

Requests == PlainRequests \cup ScopedRequests

NoReq ==
    [entry |-> "", epicenter |-> "", delta_funding_pct |-> 0, horizon_steps |-> 0,
     region_scope |-> {}, cost_per_person |-> 0]
NoResp == ErrorResponse(0, "", {})
NoMemo == [set |-> FALSE, req |-> NoReq, resp |-> NoResp]

\* the worker threads that serve requests in parallel
Threads == {"t1", "t2"}

\* no baseline file on disk
NoDisk == [panel_parquet |-> "missing", graph_json |-> "missing"]

\* no provider has been constructed
NoProvider == [made |-> FALSE, use_real |-> FALSE, year_column |-> FALSE,
               edges |-> FALSE, answers |-> {}]

\* run_simulate_aftershock has returned nothing yet
NoRaw == [ok |-> FALSE, exc |-> "", codes |-> {}]

\* a thread that serves no request
IdleCall ==
    [pc |-> "idle", req |-> NoReq, avail |-> FALSE, imported |-> FALSE,
     raw |-> NoRaw, resp |-> NoResp]

Init ==
    /\ importOk \in BOOLEAN
    /\ dmFiles \in BOOLEAN
    /\ dmPanel \in (IF dmFiles THEN PanelChoices \ {{}} ELSE {{}})
    /\ bePanel \in PanelChoices
    /\ graph \in Graphs
    /\ magnitude \in Magnitudes
    /\ model \in Models
    /\ hashOrder \in HashOrders
    /\ dataml_available = "None"
    /\ pc = "idle"
    /\ req = NoReq
    /\ resp = NoResp
    /\ memo = NoMemo
    /\ calls = [t \in Threads |-> IdleCall]
    /\ built = <<>>
    /\ scaled = NoRaw
    /\ disk = NoDisk
    /\ provider = NoProvider

\* a request arrives
Receive ==
    /\ pc = "idle"
    /\ \E r \in Requests : req' = r
    /\ pc' = "pending"
    /\ resp' = NoResp
    /\ UNCHANGED <<envVars, dataml_available, memo, calls>>

\* simulate_aftershock_route handles the request
ServeAftershock ==
    /\ pc = "pending"
    /\ req.entry = "aftershock"
    /\ resp' = SimulateAftershockRoute(req, dataml_available)
    /\ dataml_available' = FlagAfterImport(dataml_available)
    /\ pc' = "done"
    /\ UNCHANGED <<envVars, req, memo, calls>>

\* simulate_shock handles the request
ServeShock ==
    /\ pc = "pending"
    /\ req.entry = "shock"
    /\ resp' = SimulateShock(req)
    /\ pc' = "done"
    /\ UNCHANGED <<envVars, req, dataml_available, memo, calls>>

\* the backend engine is called directly with the provider's data
ServeEngine ==
    /\ pc = "pending"
    /\ req.entry = "engine"
    /\ resp' = SimulateEngine(req)
    /\ pc' = "done"
    /\ UNCHANGED <<envVars, req, dataml_available, memo, calls>>

\* the response has been delivered; the process is ready for the next request
Return ==
    /\ pc = "done"
    /\ pc' = "idle"
    /\ req' = NoReq
    /\ resp' = NoResp
    /\ UNCHANGED <<envVars, dataml_available, memo, calls>>

Next == Receive \/ ServeAftershock \/ ServeShock \/ ServeEngine \/ Return

Spec == Init /\ [][Next]_vars

----------------------------------------------------------------------------
(* A second specification for determinism: the process remembers one       *)
(* (request, response) pair and is asked the same request again later.     *)

DetRequests ==
    [entry : {"aftershock", "shock"}, epicenter : {"BFA", "XXX"},
     delta_funding_pct : {-99, -20}, horizon_steps : {2, MaxHorizonInput},
     region_scope : {{}}, cost_per_person : {BACKEND_COST_PER_PERSON}]

\* requests served between the two compared calls
Interleaved ==
    { r \in DetRequests :
        r.epicenter = "BFA" /\ r.delta_funding_pct = -20 /\ r.horizon_steps = 2 }

ReceiveDet ==
    /\ pc = "idle"
    /\ \E r \in (IF memo.set THEN {memo.req} \cup Interleaved ELSE DetRequests) : req' = r
    /\ pc' = "pending"
    /\ resp' = NoResp
    /\ UNCHANGED <<envVars, dataml_available, memo, calls>>

\* the response is delivered and remembered for the comparison
Remember ==
    /\ pc = "done"
    /\ ~memo.set
    /\ memo' = [set |-> TRUE, req |-> req, resp |-> resp]
    /\ pc' = "idle"
    /\ req' = NoReq
    /\ resp' = NoResp
    /\ UNCHANGED <<envVars, dataml_available, calls>>

NextDet == ReceiveDet \/ ServeAftershock \/ ServeShock \/ Return \/ Remember

SpecDet == Init /\ [][NextDet]_vars

----------------------------------------------------------------------------
(* A third specification: two worker threads serve requests in parallel.   *)
(* A call is split at every access to state another thread can see: the    *)
(* read of _DATAML_AVAILABLE, the import with the write of the flag, the    *)
(* simulation, and the route's normalisation with a provider of its own.   *)

ConcRequests ==
    [entry : {"aftershock", "shock"}, epicenter : {"BFA", "XXX"},
     delta_funding_pct : {-20}, horizon_steps : {2},
     region_scope : {{}}, cost_per_person : {BACKEND_COST_PER_PERSON}]

\* the "True"/"False" a thread holds as the outcome of _try_import_dataml
FlagOf(avail) == IF avail THEN "True" ELSE "False"

\* a variant that marks the flag False while the import is still running
FlagDuringImportFalse(flag) == "False"

\* _DATAML_AVAILABLE between the test of line 17 and the assignment of
\* line 21 or 25: the code leaves it untouched
FlagDuringImport(flag) == flag

\* a thread picks up a request; simulate_shock does not probe the flag
CallStart ==
    \E t \in Threads :
        /\ calls[t].pc = "idle"
        /\ \E r \in ConcRequests :
             calls' = [calls EXCEPT ![t] =
                         [IdleCall EXCEPT !.req = r,
                                          !.pc = IF r.entry = "aftershock"
                                                 THEN "probe" ELSE "run"]]
        /\ UNCHANGED <<envVars, dataml_available, pc, req, resp, memo>>

\* _try_import_dataml, lines 17-18: the flag is read; a set flag is returned
ProbeRead ==
    \E t \in Threads :
        /\ calls[t].pc = "probe"
        /\ IF dataml_available # "None"
           THEN /\ calls' = [calls EXCEPT ![t].pc = "run",
                                          ![t].avail = TryImportDataml(dataml_available)]
                /\ UNCHANGED dataml_available
           ELSE /\ calls' = [calls EXCEPT ![t].pc = "import"]
                /\ dataml_available' = FlagDuringImport(dataml_available)
        /\ UNCHANGED <<envVars, pc, req, resp, memo>>

\* _try_import_dataml, lines 19-26: the import ends and the flag is written
ProbeImport ==
    \E t \in Threads :
        /\ calls[t].pc = "import"
        /\ calls' = [calls EXCEPT ![t].pc = "run",
                                  ![t].avail = TryImportDataml("None"),
                                  ![t].imported = TRUE]
        /\ dataml_available' = FlagAfterImport("None")
        /\ UNCHANGED <<envVars, pc, req, resp, memo>>

\* run_simulate_aftershock after the probe (or the whole of simulate_shock)
CallRun ==
    \E t \in Threads :
        /\ calls[t].pc = "run"
        /\ IF calls[t].req.entry = "aftershock"
           THEN calls' = [calls EXCEPT
                    ![t].pc = "normalize",
                    ![t].raw = RunSimulateAftershock(
                                   calls[t].req.epicenter,
                                   ClampDelta(calls[t].req.delta_funding_pct),
                                   ClampHorizon(calls[t].req.horizon_steps),
                                   FlagOf(calls[t].avail))]
           ELSE calls' = [calls EXCEPT
                    ![t].pc = "done",
                    ![t].resp = SimulateShock(calls[t].req)]
        /\ UNCHANGED <<envVars, dataml_available, pc, req, resp, memo>>

\* simulate_aftershock_route, lines 124-181
CallNormalize ==
    \E t \in Threads :
        /\ calls[t].pc = "normalize"
        /\ calls' = [calls EXCEPT
                 ![t].pc = "done",
                 ![t].resp = RouteResponse(calls[t].req,
                                           ClampDelta(calls[t].req.delta_funding_pct),
                                           calls[t].raw)]
        /\ UNCHANGED <<envVars, dataml_available, pc, req, resp, memo>>

\* the response is delivered
CallReturn ==
    \E t \in Threads :
        /\ calls[t].pc = "done"
        /\ calls' = [calls EXCEPT ![t] = IdleCall]
        /\ UNCHANGED <<envVars, dataml_available, pc, req, resp, memo>>

NextConc ==
    CallStart \/ ProbeRead \/ ProbeImport \/ CallRun \/ CallNormalize \/ CallReturn

SpecConc == Init /\ [][NextConc]_vars

----------------------------------------------------------------------------
(* The provider's files are replaced while the process runs.                *)
(* get_aftershock_provider() constructs a FileAftershockDataProvider on     *)
(* every call, and its constructor reads the files, so each call of the     *)
(* backend engine and each normalisation of the route sees the files as     *)
(* they are at that moment.                                                 *)

InitReload ==
    /\ Init
    /\ magnitude = "typical"
    /\ hashOrder = <<"BFA", "NER", "TCD">>

\* region_panel.parquet is replaced between two requests
RewriteFiles ==
    /\ pc = "idle"
    /\ \E p \in PanelChoices \ {bePanel} : bePanel' = p
    /\ UNCHANGED <<importOk, dmFiles, dmPanel, graph, magnitude, model, hashOrder,
                   built, scaled, disk, provider, dataml_available, pc, req, resp,
                   memo, calls>>

NextReload ==
    ReceiveDet \/ ServeAftershock \/ ServeShock \/ Return \/ Remember \/ RewriteFiles

SpecReload == InitReload /\ [][NextReload]_vars

----------------------------------------------------------------------------
(* FileAftershockDataProvider: backend/services/aftershock_data.py          *)

\* region_panel.parquet: missing, unreadable, or a table without / with a
\* "year" column; graph.json: missing, unreadable, or a document whose
\* "edges" list is empty (or absent) / non-empty
DiskChoices ==
    [panel_parquet : {"missing", "unreadable", "no_year", "with_year"},
     graph_json : {"missing", "unreadable", "no_edges", "edges"}]

InitProvider ==
    /\ importOk = FALSE
    /\ dmFiles = FALSE
    /\ dmPanel = {}
    /\ bePanel = {}
    /\ graph = <<>>
    /\ magnitude = "typical"
    /\ model = CHOOSE m \in Models : ~m.present
    /\ hashOrder = Alphabetical
    /\ dataml_available = "None"
    /\ pc = "idle"
    /\ req = NoReq
    /\ resp = NoResp
    /\ memo = NoMemo
    /\ calls = [t \in Threads |-> IdleCall]
    /\ built = <<>>
    /\ scaled = NoRaw
    /\ disk \in DiskChoices
    /\ provider = NoProvider

\* __init__, lines 86-93: _use_real is set only when both files exist and
\* both loads went through
LoadsReal(d) ==
    /\ d.panel_parquet \in {"no_year", "with_year"}
    /\ d.graph_json \in {"no_edges", "edges"}

\* __init__, lines 79-105
Construct ==
    /\ ~provider.made
    /\ provider' = [made |-> TRUE,
                    use_real |-> LoadsReal(disk),
                    year_column |-> LoadsReal(disk) /\ disk.panel_parquet = "with_year",
                    edges |-> LoadsReal(disk) /\ disk.graph_json = "edges",
                    answers |-> {}]
    /\ UNCHANGED <<importOk, dmFiles, dmPanel, bePanel, graph, magnitude, model,
                   hashOrder, built, scaled, disk, dataml_available, pc, req, resp,
                   memo, calls>>

\* a getter returned from "real" or from "mock"
Answered(getter, real) ==
    /\ provider.made
    /\ provider' = [provider EXCEPT
                      !.answers = @ \cup {<<getter, IF real THEN "real" ELSE "mock">>}]
    /\ UNCHANGED <<importOk, dmFiles, dmPanel, bePanel, graph, magnitude, model,
                   hashOrder, built, scaled, disk, dataml_available, pc, req, resp,
                   memo, calls>>

\* lines 107-110
GetBaselineYear == Answered("get_baseline_year", provider.use_real /\ provider.year_column)

\* lines 112-129
GetCountryPanel == Answered("get_country_panel", provider.use_real)

\* lines 131-134
GetEdges == Answered("get_edges", provider.use_real /\ provider.edges)

\* lines 136-139
GetAvailableYears == Answered("get_available_years", provider.use_real /\ provider.year_column)

NextProvider ==
    Construct \/ GetBaselineYear \/ GetCountryPanel \/ GetEdges \/ GetAvailableYears

SpecProvider == InitProvider /\ [][NextProvider]_vars

----------------------------------------------------------------------------
(* The plausibility step of dataml simulate_aftershock (lines 375-410) as a  *)
(* function of the affected list _build_affected hands it.                  *)

\* most entries of an affected list tried
MaxEntries == 3

\* delta_displaced values (persons) and delta_severity values of an entry
DisplacedInputs == {0, 50000, 83332, 83334, 100000}
SeverityInputs == {3000, 10000}

\* the neighbours the entries stand for, in neighbor_list order
NeighbourNames == <<"NER", "TCD", "MLI", "NGA", "SEN", "MRT">>

\* an entry as _build_affected appends it (lines 303-309)
BuiltEntry(iso3, displaced, severity) ==
    [country |-> iso3,
     delta_severity |-> severity,
     delta_displaced |-> displaced * 100,
     extra_cost_usd |-> displaced * COST_PER_PERSON_USD,
     prob_underfunded_next |-> 5000,
     explanation |-> "",
     projected_severity |-> Absent,
     projected_coverage |-> Absent]

BuiltLists ==
    UNION { { [i \in 1..n |-> BuiltEntry(NeighbourNames[i], f[i][1], f[i][2])] :
                f \in [1..n -> DisplacedInputs \X SeverityInputs] } :
            n \in 1..MaxEntries }

InitRescale ==
    /\ importOk = TRUE
    /\ dmFiles = TRUE
    /\ dmPanel = {"BFA"}
    /\ bePanel = {"BFA"}
    /\ graph = <<>>
    /\ magnitude = "typical"
    /\ model = CHOOSE m \in Models : ~m.present
    /\ hashOrder = Alphabetical
    /\ dataml_available = "None"
    /\ pc = "idle"
    /\ req = NoReq
    /\ resp = NoResp
    /\ memo = NoMemo
    /\ calls = [t \in Threads |-> IdleCall]
    /\ built \in BuiltLists
    /\ scaled = NoRaw
    /\ disk = NoDisk
    /\ provider = NoProvider

\* lines 375-410 run on the list, for a cut or for an increase
ApplyPlausible ==
    /\ ~scaled.ok
    /\ \E delta \in {-20, 30} :
          scaled' = DmTotals("BFA", delta,
                             [i \in DOMAIN built |-> built[i].country], built)
    /\ UNCHANGED <<importOk, dmFiles, dmPanel, bePanel, graph, magnitude, model,
                   hashOrder, built, disk, provider, dataml_available, pc, req, resp,
                   memo, calls>>

NextRescale == ApplyPlausible

SpecRescale == InitRescale /\ [][NextRescale]_vars

----------------------------------------------------------------------------
(* Claims. *)

Served == pc = "done"
ServedOk == pc = "done" /\ resp.status = 200
AffectedCountries == { resp.affected[i].country : i \in DOMAIN resp.affected }

\* C1 -- Determinism: a call that repeats an earlier request of the same
\* process, whatever was served before and in between, returns the same
\* outcome, the same affected list (same entries, same order) and the same
\* totals as the earlier call.
C1_Determinism ==
    (Served /\ memo.set /\ req = memo.req) =>
        /\ resp.status = memo.resp.status
        /\ resp.affected = memo.resp.affected
        /\ resp.totals = memo.resp.totals

\* a repeated request answered with a result of several entries over DataML
C1_Witness ==
    /\ ServedOk /\ memo.set /\ req = memo.req
    /\ resp.used_dataml /\ Len(resp.affected) > 1
    /\ memo.resp.status = 200

\* C2 -- Clamping: every result of POST /simulate/aftershock carries the
\* requested delta_funding_pct clamped to [-0.3, 0.3] and the requested
\* horizon_steps clamped to [1, 2], on the DataML and on the backend path.
C2_Clamping ==
    (ServedOk /\ req.entry = "aftershock") =>
        /\ resp.delta_funding_pct =
             (IF req.delta_funding_pct > 30 THEN 30
              ELSE IF req.delta_funding_pct < -30 THEN -30 ELSE req.delta_funding_pct)
        /\ resp.horizon_steps =
             (IF req.horizon_steps > 2 THEN 2
              ELSE IF req.horizon_steps < 1 THEN 1 ELSE req.horizon_steps)

\* 0.99 with a horizon of 10 is answered with 0.3 and 2 by the DataML path
C2_Witness ==
    /\ ServedOk /\ req.entry = "aftershock" /\ resp.used_dataml
    /\ req.delta_funding_pct = 99 /\ req.horizon_steps = 10
    /\ resp.delta_funding_pct = 30 /\ resp.horizon_steps = 2

\* C3 -- Validity: a POST /simulate/aftershock request whose epicenter is not
\* in the (non-empty) baseline panel the provider supplies gets no result: it
\* is answered 400 with a message that lists at least one valid country code.
C3_Validity ==
    (Served /\ req.entry = "aftershock" /\ bePanel # {} /\ req.epicenter \notin bePanel) =>
        /\ resp.status = 400
        /\ resp.codes # {}
        /\ resp.codes \subseteq bePanel

\* C4 -- Containment: with horizon_steps = 1 affected holds only the epicenter;
\* with horizon_steps = 2 only the epicenter and countries joined to it by an
\* edge (in either orientation).
Joined(a, b) ==
    \E i \in DOMAIN graph :
        \/ (graph[i].src = a /\ graph[i].dst = b)
        \/ (graph[i].src = b /\ graph[i].dst = a)

C4_Containment ==
    (ServedOk /\ req.entry = "aftershock") =>
        /\ resp.horizon_steps = 1 => AffectedCountries \subseteq {req.epicenter}
        /\ resp.horizon_steps = 2 =>
             \A c \in AffectedCountries : c = req.epicenter \/ Joined(req.epicenter, c)

\* C5 -- Boundedness: total_delta_displaced of a result never exceeds the
\* plausibility ceiling of 200,000 persons.
C5_Boundedness ==
    ServedOk => resp.totals.total_delta_displaced <= 200000 * 100

ScenarioNeighbors(e) == { graph[i].dst : i \in { j \in DOMAIN graph : graph[j].src = e } }

ScenarioGraph(e) ==
    /\ ScenarioNeighbors(e) # {}
    /\ \A i \in DOMAIN graph :
         (graph[i].src = e \/ graph[i].dst = e) =>
            graph[i].src = e /\ graph[i].dst # e /\ graph[i].weight = 10

C7_Scenario ==
    ( /\ ServedOk /\ req.entry = "aftershock"
      /\ req.delta_funding_pct < 0 /\ req.horizon_steps = 2
      /\ ScenarioGraph(req.epicenter)
      /\ bePanel = Countries /\ (dmFiles => dmPanel = Countries)
      /\ (model.present => model.nodes = Countries)
      /\ magnitude # "zero" ) =>
        /\ AffectedCountries = {req.epicenter} \cup ScenarioNeighbors(req.epicenter)
        /\ \A i \in DOMAIN resp.affected : resp.affected[i].delta_displaced > 0
        /\ resp.totals.affected_countries = Cardinality(ScenarioNeighbors(req.epicenter)) + 1

\* C8 -- Fallback: with no trained-model artifact a simulation call still
\* returns a populated result, and its notes say that the heuristic strategy
\* was used.  The backend engine is the heuristic strategy, so its fallback
\* note counts as such an entry.
SaysHeuristic(note) ==
    note \in {"heuristic strategy used", "Backend fallback (DataML unavailable)"}

C8_Fallback ==
    (Served /\ req.entry = "aftershock" /\ ~model.present
       /\ req.epicenter \in bePanel /\ (dmFiles => req.epicenter \in dmPanel)) =>
        /\ resp.status = 200
        /\ resp.affected # <<>>
        /\ \E i \in DOMAIN resp.notes : SaysHeuristic(resp.notes[i])

\* C9 -- No value of delta_funding_pct or horizon_steps makes a call fail:
\* a request that fails fails for every delta and horizon (same entry point,
\* same epicenter).
Respond(r, flag) ==
    IF r.entry = "aftershock" THEN SimulateAftershockRoute(r, flag)
    ELSE IF r.entry = "engine" THEN SimulateEngine(r)
    ELSE SimulateShock(r)

C9_InputsNeverFail ==
    (Served /\ resp.status # 200) =>
        \A d \in DeltaInputs, h \in HorizonInputs :
            Respond([req EXCEPT !.delta_funding_pct = d, !.horizon_steps = h],
                    dataml_available).status # 200

\* C10 -- Each clamp is recorded: the notes of a POST /simulate/aftershock
\* result hold a delta clamp entry exactly when delta_funding_pct was changed
\* by clamping and a horizon clamp entry exactly when horizon_steps was.
HasNote(n) == \E i \in DOMAIN resp.notes : resp.notes[i] = n

C10_ClampNotes ==
    (ServedOk /\ req.entry = "aftershock") =>
        /\ HasNote("delta_funding_pct clamped") <=> resp.delta_funding_pct # req.delta_funding_pct
        /\ HasNote("horizon_steps clamped") <=> resp.horizon_steps # req.horizon_steps

\* C11 -- Totals are sums: in every returned result total_delta_displaced is
\* the sum of delta_displaced over affected and total_extra_cost_usd the sum of
\* extra_cost_usd, also after the rescale and the minimum-impact injection.
SumField(f) == SumOver(f, DOMAIN f)

C11_TotalsAreSums ==
    ServedOk =>
        /\ resp.totals.total_delta_displaced =
             SumField([i \in DOMAIN resp.affected |-> resp.affected[i].delta_displaced])
        /\ resp.totals.total_extra_cost_usd =
             SumField([i \in DOMAIN resp.affected |-> resp.affected[i].extra_cost_usd])

\* C12 -- Affected count: in every POST /simulate/aftershock response
\* totals.affected_countries is the number of entries of the returned affected
\* list, also when the route added the epicenter entry.
C12_AffectedCount ==
    (ServedOk /\ req.entry = "aftershock") =>
        resp.totals.affected_countries = Len(resp.affected)

\* C13 -- Maximum severity: in every result that reports it,
\* totals.max_delta_severity is the maximum of |delta_severity| over the
\* entries of affected (0 when there are none), hence never negative.
MaxAbsSeverity ==
    MaxOver([i \in DOMAIN resp.affected |-> Abs(resp.affected[i].delta_severity)],
            DOMAIN resp.affected)

C13_MaxSeverity ==
    (ServedOk /\ req.entry = "aftershock") =>
        /\ resp.totals.max_delta_severity = MaxAbsSeverity
        /\ resp.totals.max_delta_severity >= 0

\* C14 -- Probability range: every affected entry of every returned result
\* has prob_underfunded_next in [0, 1], whichever path built it.
C14_ProbRange ==
    ServedOk =>
        \A i \in DOMAIN resp.affected :
            /\ resp.affected[i].prob_underfunded_next >= 0
            /\ resp.affected[i].prob_underfunded_next <= 10000

\* the route added an epicenter whose projected coverage exceeds 1, and
\* reports probability 0 for it
C14_Witness ==
    /\ ServedOk /\ req.entry = "aftershock" /\ resp.used_dataml
    /\ Len(resp.affected) > 1
    /\ resp.affected[1].country = req.epicenter
    /\ resp.affected[1].projected_coverage > 10000
    /\ resp.affected[1].prob_underfunded_next = 0

\* C15 -- Projected ranges: every affected entry of every POST
\* /simulate/aftershock response has projected_severity in [0, 1] and
\* projected_coverage in [0, 1].
C15_ProjectedRanges ==
    (ServedOk /\ req.entry = "aftershock") =>
        \A i \in DOMAIN resp.affected :
            /\ resp.affected[i].projected_severity >= 0
            /\ resp.affected[i].projected_severity <= 10000
            /\ resp.affected[i].projected_coverage >= 0
            /\ resp.affected[i].projected_coverage <= 10000

\* C16 -- Region scope: when a request supplies a region_scope (here one that
\* holds the epicenter), every country of the returned affected list belongs
\* to it, and every affected country other than the epicenter is joined to
\* the epicenter directly or through a country of the scope; for POST
\* /simulate/aftershock and for direct calls of the engine.
ReachedInScope(e, c, scope) ==
    \/ Joined(e, c)
    \/ \E b \in scope : Joined(e, b) /\ Joined(b, c)

C16_RegionScope ==
    (ServedOk /\ req.entry \in {"aftershock", "engine"}
       /\ req.region_scope # {} /\ req.epicenter \in req.region_scope) =>
        /\ AffectedCountries \subseteq req.region_scope
        /\ \A c \in AffectedCountries \ {req.epicenter} :
               ReachedInScope(req.epicenter, c, req.region_scope)

\* C17 -- Cost per person: every affected entry satisfies extra_cost_usd =
\* delta_displaced x cost_per_person, with the cost_per_person of the request
\* (250 when omitted), also after the rescale and the minimum-impact injection.
C17_CostPerPerson ==
    (ServedOk /\ req.entry \in {"aftershock", "engine"}) =>
        \A i \in DOMAIN resp.affected :
            resp.affected[i].extra_cost_usd =
                SMulDivRound(resp.affected[i].delta_displaced, req.cost_per_person, 100)

\* C18 -- Concurrency: whatever the interleaving of two calls served in
\* parallel, including two probes of _DATAML_AVAILABLE that overlap, each
\* call returns exactly the response it returns when it runs alone.
C18_Concurrency ==
    \A t \in Threads :
        calls[t].pc = "done" => calls[t].resp = Respond(calls[t].req, "None")

\* both threads found the flag unset, both ran the import, and both were
\* answered by DataML
C18_Witness ==
    \A t \in Threads :
        /\ calls[t].pc = "done" /\ calls[t].imported
        /\ calls[t].resp.status = 200 /\ calls[t].resp.used_dataml
        /\ Len(calls[t].resp.affected) > 1

\* C19 -- Model index fallback: with a loadable trained model and an epicenter
\* that is in the baseline panel (both panels here) but not in the model's
\* node index, a simulation call does not fail: it returns a result and its
\* notes record the fallback to the heuristic strategy.
C19_ModelIndexFallback ==
    ( /\ Served /\ req.entry \in {"aftershock", "shock"}
      /\ importOk /\ dmFiles /\ model.present
      /\ req.epicenter \in dmPanel /\ req.epicenter \in bePanel
      /\ req.epicenter \notin model.nodes
      /\ req.horizon_steps \in 1..2 ) =>
        /\ resp.status = 200
        /\ \E i \in DOMAIN resp.notes : SaysHeuristic(resp.notes[i])

\* C20 -- Undirected edges: for horizon_steps = 2, every country B of the
\* panel (both panels and the model index here) that an edge joins to the
\* epicenter A in either orientation appears in affected, and the countries
\* of affected other than A are among those GET /simulate/neighbors returns
\* for A.
InEveryPanel(c) ==
    /\ c \in bePanel
    /\ dmFiles => c \in dmPanel
    /\ model.present => c \in model.nodes

C20_UndirectedEdges ==
    ( /\ ServedOk /\ req.entry = "aftershock" /\ req.horizon_steps = 2
      /\ InEveryPanel(req.epicenter) ) =>
        /\ \A b \in Countries :
             (InEveryPanel(b) /\ (\E i \in DOMAIN graph :
                                     \/ graph[i].src = req.epicenter /\ graph[i].dst = b
                                     \/ graph[i].src = b /\ graph[i].dst = req.epicenter))
                => b \in AffectedCountries
        /\ AffectedCountries \ {req.epicenter} \subseteq Range(GetEpicenterNeighbors(req.epicenter))

\* C21 -- Edges with an endpoint outside the active node set are dropped: a
\* call of the backend engine answers exactly as it does on the edge list
\* without those edges (so such a country is never in affected, never
\* receives or relays shock, and the call does not fail because of the edge),
\* and no such country appears in the debug edge trace.
InPanelEdge(e) == e.src \in bePanel /\ e.dst \in bePanel
InPanelEdges == { e \in Range(graph) : InPanelEdge(e) }

C21_ForeignEdgesDropped ==
    (Served /\ req.entry = "engine") =>
        /\ resp = EngineResponse(BackendSimulate(req.epicenter, req.delta_funding_pct,
                                                 req.horizon_steps, bePanel,
                                                 FilterSeq(graph, InPanelEdges),
                                                 magnitude, req.cost_per_person,
                                                 req.region_scope))
        /\ (resp.status = 200 =>
              \A e \in GraphEdgesUsed(req.epicenter, req.delta_funding_pct,
                                      req.horizon_steps, graph, magnitude,
                                      req.region_scope) : InPanelEdge(e))

\* C22 -- Minimum-impact policy: a result for a funding cut (delta < 0) at an
\* epicenter that an edge joins to some other country (here one present in
\* every panel) has a strictly positive total extra displaced and holds an
\* entry with delta_displaced > 0, on every simulation path.
HasNeighbour(e) == \E b \in Countries \ {e} : InEveryPanel(b) /\ Joined(e, b)

C22_MinimumImpact ==
    (ServedOk /\ resp.delta_funding_pct < 0 /\ InEveryPanel(req.epicenter)
              /\ HasNeighbour(req.epicenter)) =>
        /\ resp.totals.total_delta_displaced > 0
        /\ \E i \in DOMAIN resp.affected : resp.affected[i].delta_displaced > 0

\* C23 -- Plausibility rescale, as the claim states it: when the computed
\* total exceeds 200,000 every entry's delta_displaced is the nearest integer
\* to delta_displaced * 100,000 / total, its extra_cost_usd is recomputed from
\* that value, its delta_severity is capped at 0.5, and the resulting total is
\* at most 100,000; when the computed total is at most 200,000 (and not 0,
\* where the minimum-impact policy acts) the list is returned as it was.
ComputedTotal == SumDisplaced(built) \div 100

NearestScaled(d, displaced, total) ==
    /\ d \in {MulDivQR(displaced, TARGET_TOTAL_EXTRA_DISPLACED, total)[1],
              MulDivQR(displaced, TARGET_TOTAL_EXTRA_DISPLACED, total)[1] + 1}
    /\ 2 * MulDivQR(displaced, TARGET_TOTAL_EXTRA_DISPLACED, total)[2] < total
         => d = MulDivQR(displaced, TARGET_TOTAL_EXTRA_DISPLACED, total)[1]
    /\ 2 * MulDivQR(displaced, TARGET_TOTAL_EXTRA_DISPLACED, total)[2] > total
         => d = MulDivQR(displaced, TARGET_TOTAL_EXTRA_DISPLACED, total)[1] + 1

EntryRescaled(a, b, total) ==
    /\ b.delta_displaced % 100 = 0
    /\ NearestScaled(b.delta_displaced \div 100, a.delta_displaced \div 100, total)
    /\ b.extra_cost_usd = (b.delta_displaced \div 100) * COST_PER_PERSON_USD
    /\ b.delta_severity = Min2(5000, a.delta_severity)
    /\ b.country = a.country

EntriesAsClaimed ==
    /\ DOMAIN scaled.affected = DOMAIN built
    /\ ComputedTotal > MAX_TOTAL_EXTRA_DISPLACED =>
         \A i \in DOMAIN built : EntryRescaled(built[i], scaled.affected[i], ComputedTotal)
    /\ (ComputedTotal <= MAX_TOTAL_EXTRA_DISPLACED /\ ComputedTotal > 0) =>
         scaled.affected = built

C23_Rescale ==
    scaled.ok =>
        /\ EntriesAsClaimed
        /\ ComputedTotal > MAX_TOTAL_EXTRA_DISPLACED =>
             /\ scaled.total_extra_displaced = SumDisplaced(scaled.affected)
             /\ scaled.total_extra_displaced <= TARGET_TOTAL_EXTRA_DISPLACED * 100

\* C23 (amended) -- the same, except that the resulting total is within half
\* a person per entry of 100,000: each entry is rounded on its own.
C23_RescaleRounded ==
    scaled.ok =>
        /\ EntriesAsClaimed
        /\ ComputedTotal > MAX_TOTAL_EXTRA_DISPLACED =>
             /\ scaled.total_extra_displaced = SumDisplaced(scaled.affected)
             /\ 2 * Abs(scaled.total_extra_displaced \div 100 - TARGET_TOTAL_EXTRA_DISPLACED)
                  <= Len(built)

C23_Witness ==
    /\ scaled.ok
    /\ Len(built) = 3
    /\ ComputedTotal > MAX_TOTAL_EXTRA_DISPLACED
    /\ \E i \in DOMAIN built : built[i].delta_severity > 5000
    /\ \E i \in DOMAIN built : scaled.affected[i].delta_displaced # built[i].delta_displaced

\* C24 -- Backend heuristic propagation: with stress s = -delta the epicenter
\* starts with delta_severity = alpha * s * (1 - coverage) and delta_displaced
\* = beta * s * displaced_out / 10 and every other country with 0; in each of
\* the horizon_steps - 1 rounds a country's delta becomes what it was at the
\* start of the round plus, for every edge into it, the start-of-round delta
\* of the edge's source times edge_weight times decay (parallel edges and
\* several sources add up).  Stated for calls without a region_scope.
RECURSIVE DeltaAfter(_, _, _, _)
DeltaAfter(e, d0, rounds, k) ==
    IF rounds <= 0 THEN (IF k = e THEN d0 ELSE 0)
    ELSE DeltaAfter(e, d0, rounds - 1, k)
         + SumOver([i \in DOMAIN graph |->
                      Propagated(DeltaAfter(e, d0, rounds - 1, graph[i].src),
                                 graph[i].weight)],
                   { i \in DOMAIN graph : graph[i].dst = k })

BackendAnswered ==
    /\ ServedOk
    /\ req.region_scope = {}
    /\ \/ req.entry = "engine"
       \/ req.entry = "aftershock" /\ ~resp.used_dataml

C24_Propagation ==
    BackendAnswered =>
        \A i \in DOMAIN resp.affected :
            /\ resp.affected[i].delta_severity =
                 DeltaAfter(resp.epicenter,
                            EpicenterSeverity(resp.delta_funding_pct,
                                              CoverageOf(resp.epicenter)),
                            resp.horizon_steps - 1, resp.affected[i].country)
            /\ resp.affected[i].delta_displaced =
                 DeltaAfter(resp.epicenter,
                            EpicenterDisplaced(resp.delta_funding_pct,
                                               DispOutOf(resp.epicenter, magnitude)),
                            resp.horizon_steps - 1, resp.affected[i].country)

C24_Witness ==
    /\ BackendAnswered
    /\ req.entry = "engine" /\ resp.horizon_steps = 3
    /\ \E i, j \in DOMAIN graph :
          i # j /\ graph[i].src = graph[j].src /\ graph[i].dst = graph[j].dst
    /\ \E i \in DOMAIN resp.affected :
          /\ resp.affected[i].country # resp.epicenter
          /\ resp.affected[i].delta_severity # 0
          /\ resp.affected[i].delta_displaced # 0

\* C25 -- Fallback chain of run_simulate_aftershock, seen through
\* POST /simulate/aftershock: the DataML result is used exactly when DataML is
\* importable and its call succeeds, and then used_dataml is True and the
\* notes hold 'DataML simulation'; otherwise the backend engine answers with
\* used_dataml False and the note 'Backend fallback (DataML unavailable)'; the
\* call fails only when the backend engine raised (the epicenter is not in
\* the provider's panel), never with an exception of the DataML call.
DatamlSucceeds ==
    /\ importOk
    /\ DatamlSimulate(req.epicenter, ClampDelta(req.delta_funding_pct),
                      ClampHorizon(req.horizon_steps)).ok

C26_LoadedOnce ==
    /\ (Served /\ memo.set /\ req = memo.req) => resp = memo.resp
    /\ (ServedOk /\ req.entry = "aftershock") => AffectedCountries \subseteq bePanel

\* C27 -- The engine tolerates an empty or partial baseline: when the edge
\* list is empty, when every edge names a country missing from the panel, or
\* when the panel is empty, a call of the backend engine returns a result whose
\* affected list is empty or holds only the epicenter.  (Stated for an
\* epicenter that the panel holds unless the panel is empty.)
C27_EmptyBaseline ==
    ( /\ Served /\ req.entry = "engine"
      /\ (bePanel = {} \/ req.epicenter \in bePanel)
      /\ \/ graph = <<>>
         \/ bePanel = {}
         \/ \A i \in DOMAIN graph : ~InPanelEdge(graph[i]) ) =>
        /\ resp.status = 200
        /\ AffectedCountries \subseteq {req.epicenter}

\* C28 -- FileAftershockDataProvider answers from one source at a time: every
\* getter of one provider returns real data when both files exist and load,
\* and mock data otherwise; a real panel is never combined with mock edges or
\* a mock baseline year.
C28_OneSource ==
    provider.made =>
        /\ \A a, b \in provider.answers : a[2] = b[2]
        /\ \A a \in provider.answers : a[2] = "real" => LoadsReal(disk)

\* C29 -- The DataML availability flag is decided at most once: once
\* _try_import_dataml has set it, no later step changes it; a failed import
\* leaves it False and no later call uses DataML; a runtime failure of the
\* DataML call leaves it True, and a later call whose DataML call succeeds is
\* answered by DataML.
C29_FlagDecidedOnce ==
    /\ [][dataml_available # "None" => dataml_available' = dataml_available]_vars
    /\ []((Served /\ req.entry = "aftershock") =>
            /\ dataml_available = (IF importOk THEN "True" ELSE "False")
            /\ dataml_available = "False" => ~resp.used_dataml
            /\ DatamlSucceeds => resp.used_dataml)

C29_Witness ==
    /\ Served /\ req.entry = "aftershock"
    /\ importOk /\ ~DatamlSucceeds
    /\ dataml_available = "True"
    /\ resp.status = 200 /\ ~resp.used_dataml
    /\ req.epicenter \in dmPanel

\* C30 -- Zero funding change yields zero impact: for delta_funding_pct = 0
\* every affected entry has delta_displaced = 0 and delta_severity = 0 and
\* the total extra displaced is 0, whether the DataML heuristic or the backend
\* engine answered.
C30_ZeroDelta ==
    ( /\ ServedOk /\ req.delta_funding_pct = 0
      /\ (resp.used_dataml => ~model.present) ) =>
        /\ \A i \in DOMAIN resp.affected :
              /\ resp.affected[i].delta_displaced = 0
              /\ resp.affected[i].delta_severity = 0
        /\ resp.totals.total_delta_displaced = 0

====
